---- MODULE Spec2Model ----
(***************************************************************************)
(* Model of verify_attention_only.py: the command line tool that resolves  *)
(* a path to .et files, reads the first one, decodes it lossily, scans     *)
(* the text with three regular expressions, counts and groups the tokens   *)
(* and prints a report.                                                    *)
(*                                                                         *)
(* Bytes, characters and path characters are code points (integers), so    *)
(* character classes are ranges and string order is code point order, as   *)
(* in Python.  A string is a sequence of code points.                      *)
(***************************************************************************)
EXTENDS Integers, Sequences, FiniteSets, TLC

(***************************************************************************)
(* Characters                                                              *)
(***************************************************************************)

\* Code points of the characters the model writes literally.
Ord ==
  [c \in {"a", "b", "c", "d", "e", "l", "m", "n", "o", "p", "t", "x", "y",
          "C", "D", "E", "L", "M", "N", "O", "P",
          "_", ".", "=", ":", "'", "q", " ", "/", "*", "1"} |->
     CASE c = "a" -> 97  [] c = "b" -> 98  [] c = "c" -> 99  [] c = "d" -> 100
       [] c = "e" -> 101 [] c = "l" -> 108 [] c = "m" -> 109 [] c = "n" -> 110
       [] c = "o" -> 111 [] c = "p" -> 112 [] c = "t" -> 116 [] c = "x" -> 120
       [] c = "y" -> 121
       [] c = "C" -> 67  [] c = "D" -> 68  [] c = "E" -> 69  [] c = "L" -> 76
       [] c = "M" -> 77  [] c = "N" -> 78  [] c = "O" -> 79  [] c = "P" -> 80
       [] c = "_" -> 95  [] c = "." -> 46  [] c = "=" -> 61  [] c = ":" -> 58
       [] c = "'" -> 39  [] c = "q" -> 34  [] c = " " -> 32  [] c = "/" -> 47
       [] c = "*" -> 42  [] c = "1" -> 49]

\* The string written as a tuple of one-character names ("q" is the double
\* quote character).
S(t) == [i \in 1..Len(t) |-> Ord[t[i]]]

IsUpper(c) == c \in 65..90
IsLowerAscii(c) == c \in 97..122
IsLetter(c) == IsUpper(c) \/ IsLowerAscii(c)
IsDigit(c) == c \in 48..57
\* str.lower on one ASCII character, the case folding of re.IGNORECASE
Lower(c) == IF IsUpper(c) THEN c + 32 ELSE c

\* The character classes of the three patterns, for the characters below
\* U+0100 (the texts of the model hold no other).
InClass(cls, c) ==
  CASE cls = "quote"      -> c \in {34, 39}                       \* ["\']
    [] cls = "space"      -> c \in (9..13) \cup (28..32) \cup {133, 160} \* \s
    [] cls = "sep"        -> c \in {58, 61}                       \* [:=]
    [] cls = "notquote"   -> c \notin {34, 39}                    \* [^"\']
    [] cls = "identstart" -> IsLetter(c) \/ c = 95                \* [a-zA-Z_]
    [] cls = "identdot"   -> IsLetter(c) \/ IsDigit(c) \/ c \in {95, 46}
                                                                  \* [a-zA-Z0-9_.]
    [] cls = "dot"        -> c = 46                               \* \.
    [] cls = "notletter"  -> ~IsLetter(c)                         \* [^a-zA-Z]

(***************************************************************************)
(* re.findall: a backtracking matcher over a flat list of pattern items.   *)
(* Items: lit (a literal), alt (ordered alternatives of literals), one,    *)
(* opt, star, plus (a class, greedy), gs and ge (the capture group).       *)
(***************************************************************************)

Lit(s, ic)   == [t |-> "lit", alts |-> <<s>>, ic |-> ic, cls |-> "none"]
Alt(ss, ic)  == [t |-> "alt", alts |-> ss, ic |-> ic, cls |-> "none"]
One(cls)     == [t |-> "one", alts |-> <<>>, ic |-> FALSE, cls |-> cls]
Opt(cls)     == [t |-> "opt", alts |-> <<>>, ic |-> FALSE, cls |-> cls]
Star(cls)    == [t |-> "star", alts |-> <<>>, ic |-> FALSE, cls |-> cls]
Plus(cls)    == [t |-> "plus", alts |-> <<>>, ic |-> FALSE, cls |-> cls]
GroupStart   == [t |-> "gs", alts |-> <<>>, ic |-> FALSE, cls |-> "none"]
GroupEnd     == [t |-> "ge", alts |-> <<>>, ic |-> FALSE, cls |-> "none"]

NoMatch == [ok |-> FALSE, end |-> 0, gs |-> 0, ge |-> 0]

\* Whether literal lit stands in text at position pos (1-based).
LitAt(lit, ic, text, pos) ==
  /\ pos + Len(lit) - 1 <= Len(text)
  /\ \A i \in 1..Len(lit) :
       IF ic THEN Lower(text[pos + i - 1]) = Lower(lit[i])
             ELSE text[pos + i - 1] = lit[i]

\* Length of the longest run of class characters starting at pos.
RECURSIVE RunLen(_, _, _)
RunLen(cls, text, pos) ==
  IF pos <= Len(text) /\ InClass(cls, text[pos])
  THEN 1 + RunLen(cls, text, pos + 1)
  ELSE 0

RECURSIVE MatchFrom(_, _, _, _, _, _)
RECURSIVE TryCounts(_, _, _, _, _, _, _, _)
RECURSIVE TryAlts(_, _, _, _, _, _, _)

\* The first successful match, in the engine's priority order, of items
\* k.. of the pattern against text from position pos.
MatchFrom(items, k, text, pos, gs, ge) ==
  IF k > Len(items) THEN [ok |-> TRUE, end |-> pos, gs |-> gs, ge |-> ge]
  ELSE LET it == items[k] IN
    CASE it.t = "gs" -> MatchFrom(items, k + 1, text, pos, pos, ge)
      [] it.t = "ge" -> MatchFrom(items, k + 1, text, pos, gs, pos)
      [] it.t \in {"lit", "alt"} -> TryAlts(items, k, 1, text, pos, gs, ge)
      [] it.t = "one" ->
           IF pos <= Len(text) /\ InClass(it.cls, text[pos])
           THEN MatchFrom(items, k + 1, text, pos + 1, gs, ge)
           ELSE NoMatch
      [] it.t = "opt" ->
           TryCounts(items, k, text, pos, gs, ge,
                     IF RunLen(it.cls, text, pos) > 0 THEN 1 ELSE 0, 0)
      [] it.t = "star" ->
           TryCounts(items, k, text, pos, gs, ge, RunLen(it.cls, text, pos), 0)
      [] it.t = "plus" ->
           TryCounts(items, k, text, pos, gs, ge, RunLen(it.cls, text, pos), 1)

\* Greedy repetition: item k takes n characters, then n-1, ... down to min,
\* until the rest of the pattern matches.
TryCounts(items, k, text, pos, gs, ge, n, min) ==
  IF n < min THEN NoMatch
  ELSE LET r == MatchFrom(items, k + 1, text, pos + n, gs, ge) IN
       IF r.ok THEN r
       ELSE TryCounts(items, k, text, pos, gs, ge, n - 1, min)

\* Ordered alternation: the a-th alternative of item k, then the next ones.
TryAlts(items, k, a, text, pos, gs, ge) ==
  IF a > Len(items[k].alts) THEN NoMatch
  ELSE LET lit == items[k].alts[a]
           r == IF LitAt(lit, items[k].ic, text, pos)
                THEN MatchFrom(items, k + 1, text, pos + Len(lit), gs, ge)
                ELSE NoMatch
       IN IF r.ok THEN r ELSE TryAlts(items, k, a + 1, text, pos, gs, ge)

HasGroup(items) == \E k \in 1..Len(items) : items[k].t = "gs"

\* re.findall(pattern, text): the non-overlapping matches, left to right;
\* the capture group where the pattern has one, else the whole match.
RECURSIVE Scan(_, _, _)
Scan(items, text, pos) ==
  IF pos > Len(text) + 1 THEN <<>>
  ELSE LET r == MatchFrom(items, 1, text, pos, 0, 0) IN
       IF r.ok
       THEN LET from == IF HasGroup(items) THEN r.gs ELSE pos
                to   == IF HasGroup(items) THEN r.ge ELSE r.end
            IN <<SubSeq(text, from, to - 1)>>
                 \o Scan(items, text, IF r.end > pos THEN r.end ELSE pos + 1)
       ELSE Scan(items, text, pos + 1)

findall(items, text) == Scan(items, text, 1)

\* pattern1 = r'name["\']?\s*[:=]\s*["\']?([^"\']+)["\']?', re.IGNORECASE
pattern1 ==
  << Lit(S(<<"n", "a", "m", "e">>), TRUE), Opt("quote"), Star("space"),
     One("sep"), Star("space"), Opt("quote"),
     GroupStart, Plus("notquote"), GroupEnd, Opt("quote") >>

\* pattern2 = r'[a-zA-Z_][a-zA-Z0-9_.]*\.[a-zA-Z0-9_.]+'
pattern2 ==
  << One("identstart"), Star("identdot"), One("dot"), Plus("identdot") >>

\* pattern3 = r'(?:COMP_NODE|COLL_COMM_NODE|COMP|COMM)[^a-zA-Z]*([a-zA-Z_][a-zA-Z0-9_.]*)',
\* re.IGNORECASE
pattern3 ==
  << Alt(<< S(<<"C", "O", "M", "P", "_", "N", "O", "D", "E">>),
            S(<<"C", "O", "L", "L", "_", "C", "O", "M", "M", "_", "N", "O", "D", "E">>),
            S(<<"C", "O", "M", "P">>),
            S(<<"C", "O", "M", "M">>) >>, TRUE),
     Star("notletter"),
     GroupStart, One("identstart"), Star("identdot"), GroupEnd >>

(***************************************************************************)
(* Strings, lists and dictionaries                                         *)
(***************************************************************************)

Range(s) == {s[i] : i \in DOMAIN s}

\* Python's order on str: code point by code point, a proper prefix first.
StrLess(a, b) ==
  \E k \in 1..(Len(a) + 1) :
    /\ k <= Len(b) + 1
    /\ \A j \in 1..(k - 1) : a[j] = b[j]
    /\ IF k > Len(a) THEN k <= Len(b)
       ELSE k <= Len(b) /\ a[k] < b[k]

\* list(X) of a set: its elements in some order
RECURSIVE SetToSeq(_)
SetToSeq(X) ==
  IF X = {} THEN <<>>
  ELSE LET x == CHOOSE x \in X : TRUE IN <<x>> \o SetToSeq(X \ {x})

\* The sorted list with x put in: after every element that is not greater.
RECURSIVE InsertSorted(_, _)
InsertSorted(list, x) ==
  IF Len(list) = 0 THEN <<x>>
  ELSE IF StrLess(x, Head(list)) THEN <<x>> \o list
  ELSE <<Head(list)>> \o InsertSorted(Tail(list), x)

\* sorted(list) of strings: ascending, equal elements kept
RECURSIVE sorted(_)
sorted(list) ==
  IF Len(list) = 0 THEN <<>>
  ELSE InsertSorted(sorted(SubSeq(list, 1, Len(list) - 1)), list[Len(list)])

\* Counter(list): one pass over the list, adding one to the element's entry
RECURSIVE CounterFrom(_, _, _)
CounterFrom(list, i, acc) ==
  IF i > Len(list) THEN acc
  ELSE LET k == list[i] IN
       CounterFrom(list, i + 1,
                   IF k \in DOMAIN acc
                   THEN [acc EXCEPT ![k] = @ + 1]
                   ELSE acc @@ (k :> 1))

Counter(list) == CounterFrom(list, 1, <<>>)

\* op_counts[op]: a Counter answers 0 for a missing key
CountOf(counts, op) == IF op \in DOMAIN counts THEN counts[op] ELSE 0

\* s.split(sep) for a one-character separator: never an empty list
RECURSIVE SplitFrom(_, _, _, _)
SplitFrom(s, sep, i, cur) ==
  IF i > Len(s) THEN <<cur>>
  ELSE IF s[i] = sep THEN <<cur>> \o SplitFrom(s, sep, i + 1, <<>>)
  ELSE SplitFrom(s, sep, i + 1, Append(cur, s[i]))

split(s, sep) == SplitFrom(s, sep, 1, <<>>)

\* sep.join(parts)
RECURSIVE join(_, _)
join(sep, parts) ==
  IF Len(parts) = 0 THEN <<>>
  ELSE IF Len(parts) = 1 THEN parts[1]
  ELSE parts[1] \o <<sep>> \o join(sep, Tail(parts))

\* parts[:n]
Take(parts, n) == SubSeq(parts, 1, IF n < Len(parts) THEN n ELSE Len(parts))

Dot == Ord["."]
Slash == Ord["/"]
Asterisk == Ord["*"]

\* s.endswith(suffix)
endswith(s, suffix) ==
  /\ Len(suffix) <= Len(s)
  /\ SubSeq(s, Len(s) - Len(suffix) + 1, Len(s)) = suffix

DotEt == S(<<".", "e", "t">>)

\* os.path.basename(p): what follows the last '/'
basename(p) ==
  LET parts == split(p, Slash) IN parts[Len(parts)]

\* bytes.decode('utf-8', errors='ignore') for bytes below 0xE0 or above
\* 0xF4: an ASCII byte is its character, a lead byte 0xC2..0xDF followed by
\* a continuation byte 0x80..0xBF is a two-byte character, and every other
\* byte is dropped.
RECURSIVE DecodeFrom(_, _)
DecodeFrom(bytes, i) ==
  IF i > Len(bytes) THEN <<>>
  ELSE IF bytes[i] < 128 THEN <<bytes[i]>> \o DecodeFrom(bytes, i + 1)
  ELSE IF /\ bytes[i] \in 194..223
          /\ i + 1 <= Len(bytes)
          /\ bytes[i + 1] \in 128..191
       THEN <<(bytes[i] - 192) * 64 + (bytes[i + 1] - 128)>>
              \o DecodeFrom(bytes, i + 2)
  ELSE DecodeFrom(bytes, i + 1)

decode(bytes) == DecodeFrom(bytes, 1)

(***************************************************************************)
(* The file system the tool runs against                                   *)
(***************************************************************************)

P_d    == S(<<"d">>)
P_dh   == S(<<"d", "/", ".", "e", "t">>)
P_da   == S(<<"d", "/", "a", ".", "e", "t">>)
P_db   == S(<<"d", "/", "b", ".", "e", "t">>)
P_dc   == S(<<"d", "/", "c">>)
P_a    == S(<<"a", ".", "e", "t">>)
P_x    == S(<<"x">>)

\* Every path that may exist.
Universe == {P_d, P_dh, P_da, P_db, P_dc, P_a, P_x}

\* "other" is an entry that is neither a regular file nor a directory
\* (a dangling symbolic link).
Kinds == {"none", "file", "dir", "other"}

\* The directory part of a path ("" for an entry of the working directory).
dirname(p) ==
  LET parts == split(p, Slash) IN join(Slash, Take(parts, Len(parts) - 1))

\* The file systems of the model: d is absent or a directory, and only a
\* directory has entries.
FileSystems ==
  {f \in [Universe -> Kinds] :
     /\ f[P_d] \in {"none", "dir"}
     /\ f[P_da] \in {"none", "file", "dir"}
     /\ f[P_db] \in {"none", "file"}
     /\ f[P_dh] \in {"none", "file"}
     /\ f[P_dc] \in {"none", "file"}
     /\ f[P_x] \in {"none", "file"}
     /\ f[P_d] = "none" => \A p \in {P_da, P_db, P_dh, P_dc} : f[p] = "none"}

\* The command line arguments after the program name.
Arguments ==
  {P_d, P_d \o <<Slash>>, P_da, P_dc, P_a, P_x, S(<<"t", ".", "e", "t">>),
   S(<<"d", "/", "*">>), S(<<"d", "/", "*", ".", "e", "t">>),
   S(<<"*", ".", "e", "t">>), S(<<"*">>)}

\* str(Path(p)): trailing separators dropped
RECURSIVE PathStr(_)
PathStr(p) ==
  IF Len(p) > 1 /\ p[Len(p)] = Slash THEN PathStr(SubSeq(p, 1, Len(p) - 1))
  ELSE p

KindOf(f, p) == IF p \in Universe THEN f[p] ELSE "none"

\* Path(p).is_file(), Path(p).is_dir()
is_file(f, p) == KindOf(f, PathStr(p)) = "file"
is_dir(f, p) == KindOf(f, PathStr(p)) = "dir"

\* The entries directly inside directory dir ("" is the working directory).
Entries(f, dir) == {p \in Universe : f[p] # "none" /\ dirname(p) = dir}

\* fnmatch of a name against a pattern whose only wildcard is '*'
RECURSIVE fnmatch(_, _, _, _)
fnmatch(name, pat, i, j) ==
  IF j > Len(pat) THEN i > Len(name)
  ELSE IF pat[j] = Asterisk
       THEN \/ fnmatch(name, pat, i, j + 1)
            \/ i <= Len(name) /\ fnmatch(name, pat, i + 1, j)
       ELSE i <= Len(name) /\ name[i] = pat[j] /\ fnmatch(name, pat, i + 1, j + 1)

\* Path(dir).glob(pat) for a pattern without '/': every entry of dir whose
\* name matches, hidden names included.
PathGlob(f, dir, pat) ==
  {p \in Entries(f, PathStr(dir)) : fnmatch(basename(p), pat, 1, 1)}

has_magic(p) == \E k \in 1..Len(p) : p[k] = Asterisk

\* glob.glob(pathname) for a pathname whose directory part has no wildcard:
\* the pathname itself when it has no wildcard and exists; otherwise the
\* entries of the directory whose name matches, a name that starts with '.'
\* only for a pattern that starts with '.'.
GlobSet(f, pathname) ==
  IF ~has_magic(pathname)
  THEN IF KindOf(f, pathname) # "none" THEN {pathname} ELSE {}
  ELSE {p \in Entries(f, dirname(pathname)) :
          /\ fnmatch(basename(p), basename(pathname), 1, 1)
          /\ basename(p)[1] = Dot => basename(pathname)[1] = Dot}

\* All orders of a set: glob.glob returns its matches in directory order.
RECURSIVE Orders(_)
Orders(X) ==
  IF X = {} THEN {<<>>}
  ELSE UNION {{<<x>> \o r : r \in Orders(X \ {x})} : x \in X}

\* Path order: by the list of components (all entries here share a parent).
PathLess(a, b) ==
  LET pa == split(a, Slash)
      pb == split(b, Slash)
  IN \E k \in 1..(Len(pa) + 1) :
       /\ k <= Len(pb) + 1
       /\ \A j \in 1..(k - 1) : pa[j] = pb[j]
       /\ IF k > Len(pa) THEN k <= Len(pb)
          ELSE k <= Len(pb) /\ StrLess(pa[k], pb[k])

\* sorted(paths) of distinct Path objects
RECURSIVE SortPaths(_)
SortPaths(X) ==
  IF X = {} THEN <<>>
  ELSE LET m == CHOOSE x \in X : \A y \in X \ {x} : PathLess(x, y)
       IN <<m>> \o SortPaths(X \ {m})

\* [f for f in list if pred]
RECURSIVE FilterEt(_)
FilterEt(list) ==
  IF Len(list) = 0 THEN <<>>
  ELSE (IF endswith(Head(list), DotEt) THEN <<Head(list)>> ELSE <<>>)
         \o FilterEt(Tail(list))

\* find_et_files whose last branch keeps every match of the glob.
find_et_files_unfiltered(f, path) ==
  IF is_file(f, path) /\ endswith(path, DotEt)
  THEN {<<path>>}
  ELSE IF is_dir(f, path)
  THEN {SortPaths(PathGlob(f, path, S(<<"*", ".", "e", "t">>)))}
  ELSE Orders(GlobSet(f, path))

\* find_et_files(path): the lists it can return on file system f.
find_et_files(f, path) ==
  IF is_file(f, path) /\ endswith(path, DotEt)
  THEN {<<path>>}
  ELSE IF is_dir(f, path)
  THEN {SortPaths(PathGlob(f, path, S(<<"*", ".", "e", "t">>)))}
  ELSE {FilterEt(et_files) : et_files \in Orders(GlobSet(f, path))}

(***************************************************************************)
(* File contents                                                           *)
(***************************************************************************)

\* What each file of the universe holds (each file its own tokens).
DefaultContent ==
  (P_d  :> <<>>)
  @@ (P_dh :> S(<<"C", "O", "M", "P", " ", "x">>))
  @@ (P_da :> S(<<"C", "O", "M", "P", " ", "a", ".", "b", ".", "c", ".", "d",
                   " ", "a", ".", "b", ".", "c", " ", "c", "o", "m", "m", " ", "y">>))
  @@ (P_db :> S(<<"n", "a", "m", "e", "=", "b">>))
  @@ (P_dc :> S(<<"c", ".", "c">>))
  @@ (P_a  :> S(<<"n", "a", "m", "e", ":", "'", "a", ".", "b", "'">>))
  @@ (P_x  :> S(<<"x", ".", "x">>))

\* The pieces the scanned file contents are put together from; 195 169 is
\* a two-byte character, and each of the two bytes alone is invalid.
Fragments ==
  { S(<<"n", "a", "m", "e", "=">>), S(<<"q">>), S(<<" ">>),
    S(<<"a", ".", "b">>), S(<<".", "c">>),
    S(<<"C", "O", "M", "P">>), S(<<"c", "o", "m", "m">>),
    S(<<"C", "O", "M", "P", "_", "N", "O", "D", "E">>),
    <<195>>, <<169>> }

\* The longest file content, in fragments.
MaxFragments == 3

RECURSIVE Contents(_)
Contents(n) ==
  IF n = 0 THEN {<<>>}
  ELSE Contents(n - 1) \cup {c \o f : c \in Contents(n - 1), f \in Fragments}

(***************************************************************************)
(* The program                                                             *)
(***************************************************************************)

VARIABLES
  argv,         \* sys.argv[1:]
  fs,           \* the kind of every path of the universe
  content,      \* the bytes of every path of the universe
  pc,           \* the position of main
  status,       \* the exit status, -1 while running
  out,          \* the lines printed so far
  calls,        \* the calls made so far: the resolver, open, the extractor
  input_path, et_files, first_file,
  content_str,  \* the text extract_strings_from_binary returned
  node_names, unique_ops, op_counts,
  grouped       \* prefix -> list of operations

vars == <<argv, fs, content, pc, status, out, calls, input_path, et_files,
          first_file, content_str, node_names, unique_ops, op_counts,
          grouped>>

Line(kind, text, n) == [kind |-> kind, text |-> text, n |-> n]
\* A call, its argument, and whether it went well (open: the read succeeded;
\* extract_strings_from_binary: it returned rather than raised).
Call(fn, arg, ok) == [fn |-> fn, arg |-> arg, ok |-> ok]

Locals0 ==
  /\ pc = "start"
  /\ status = -1
  /\ out = <<>>
  /\ calls = <<>>
  /\ input_path = <<>>
  /\ et_files = <<>>
  /\ first_file = <<>>
  /\ content_str = <<>>
  /\ node_names = <<>>
  /\ unique_ops = <<>>
  /\ op_counts = <<>>
  /\ grouped = <<>>

\* Any file system and any argument (or none), the files holding their
\* default contents.
InitPaths ==
  /\ fs \in FileSystems
  /\ argv \in {<<>>} \cup {<<a>> : a \in Arguments}
  /\ content = DefaultContent
  /\ Locals0

\* One readable file a.et of any content, named on the command line.
InitContents ==
  /\ fs = [p \in Universe |-> IF p = P_a THEN "file" ELSE "none"]
  /\ argv = <<P_a>>
  /\ content \in {[DefaultContent EXCEPT ![P_a] = c] : c \in Contents(MaxFragments)}
  /\ Locals0

Init == InitPaths \/ InitContents

\* sys.exit(code)
Exit(code) == pc' = "exit" /\ status' = code

\* CheckArgs that leaves with sys.exit() and so with status 0.
CheckArgsExitZero ==
  /\ pc = "start"
  /\ IF Len(argv) + 1 < 2
     THEN /\ out' = out \o << Line("usage", <<>>, 0),
                              Line("error_no_path", <<>>, 0),
                              Line("example", <<>>, 0) >>
          /\ Exit(0)
          /\ UNCHANGED input_path
     ELSE /\ input_path' = argv[1]
          /\ pc' = "resolve"
          /\ UNCHANGED <<out, status>>
  /\ UNCHANGED <<argv, fs, content, calls, et_files, first_file, content_str,
                 node_names, unique_ops, op_counts, grouped>>

\* main, lines 84-90
CheckArgs ==
  /\ pc = "start"
  /\ IF Len(argv) + 1 < 2
     THEN /\ out' = out \o << Line("usage", <<>>, 0),
                              Line("error_no_path", <<>>, 0),
                              Line("example", <<>>, 0) >>
          /\ Exit(1)
          /\ UNCHANGED input_path
     ELSE /\ input_path' = argv[1]
          /\ pc' = "resolve"
          /\ UNCHANGED <<out, status>>
  /\ UNCHANGED <<argv, fs, content, calls, et_files, first_file, content_str,
                 node_names, unique_ops, op_counts, grouped>>

\* main, line 93
Resolve ==
  /\ pc = "resolve"
  /\ \E r \in find_et_files(fs, input_path) : et_files' = r
  /\ calls' = Append(calls, Call("find_et_files", input_path, TRUE))
  /\ pc' = "check"
  /\ UNCHANGED <<argv, fs, content, status, out, input_path, first_file,
                 content_str, node_names, unique_ops, op_counts, grouped>>

\* TakeFirst without the test for an empty list.
TakeFirstUnchecked ==
  /\ pc = "check"
  /\ first_file' = IF Len(et_files) = 0 THEN <<>> ELSE et_files[1]
  /\ out' = Append(out, Line("analyzing", first_file', 0))
  /\ pc' = "read"
  /\ UNCHANGED <<argv, fs, content, status, calls, input_path, et_files,
                 content_str, node_names, unique_ops, op_counts, grouped>>

\* TakeFirst that takes et_files[-1].
TakeLast ==
  /\ pc = "check"
  /\ IF Len(et_files) = 0
     THEN /\ out' = Append(out, Line("error_no_files", input_path, 0))
          /\ Exit(1)
          /\ UNCHANGED first_file
     ELSE /\ first_file' = et_files[Len(et_files)]
          /\ out' = Append(out, Line("analyzing", et_files[Len(et_files)], 0))
          /\ pc' = "read"
          /\ UNCHANGED status
  /\ UNCHANGED <<argv, fs, content, calls, input_path, et_files, content_str,
                 node_names, unique_ops, op_counts, grouped>>

\* main, lines 95-101
TakeFirst ==
  /\ pc = "check"
  /\ IF Len(et_files) = 0
     THEN /\ out' = Append(out, Line("error_no_files", input_path, 0))
          /\ Exit(1)
          /\ UNCHANGED first_file
     ELSE /\ first_file' = et_files[1]
          /\ out' = Append(out, Line("analyzing", et_files[1], 0))
          /\ pc' = "read"
          /\ UNCHANGED status
  /\ UNCHANGED <<argv, fs, content, calls, input_path, et_files, content_str,
                 node_names, unique_ops, op_counts, grouped>>

\* Whether open(path, 'rb') and read() can succeed: never on what is not a
\* regular file, and a regular file may be unreadable.
IoOutcomes(f, path) ==
  IF KindOf(f, path) = "file" THEN {TRUE, FALSE} ELSE {FALSE}

\* extract_strings_from_binary without its outer try: a failed read raises.
extract_strings_unguarded(file_path, io_ok, bytes) ==
  IF io_ok
  THEN [raised |-> FALSE, value |-> decode(bytes), printed |-> <<>>]
  ELSE [raised |-> TRUE, value |-> <<>>, printed |-> <<>>]

\* extract_strings_from_binary whose handler returns a text that is not
\* empty (the path it could not read).
extract_strings_returns_path(file_path, io_ok, bytes) ==
  IF io_ok
  THEN [raised |-> FALSE, value |-> decode(bytes), printed |-> <<>>]
  ELSE [raised |-> FALSE, value |-> file_path,
        printed |-> <<Line("error_reading", file_path, 0)>>]

\* extract_strings_from_binary(file_path), given whether the read succeeds
\* and the bytes read: whether it raises, what it returns and what it prints.
extract_strings_from_binary(file_path, io_ok, bytes) ==
  IF io_ok
  THEN [raised |-> FALSE, value |-> decode(bytes), printed |-> <<>>]
  ELSE [raised |-> FALSE, value |-> <<>>,
        printed |-> <<Line("error_reading", file_path, 0)>>]

\* extract_operations, line 41; an exception would end main with a traceback
ReadFile ==
  /\ pc = "read"
  /\ \E io_ok \in IoOutcomes(fs, first_file) :
       LET r == extract_strings_from_binary(first_file, io_ok,
                                            IF first_file \in Universe
                                            THEN content[first_file] ELSE <<>>)
       IN /\ calls' = calls \o << Call("extract_operations", first_file, TRUE),
                                  Call("open", first_file, io_ok),
                                  Call("extract_strings_from_binary",
                                       first_file, ~r.raised) >>
          /\ out' = out \o r.printed
          /\ IF r.raised
             THEN Exit(1) /\ UNCHANGED content_str
             ELSE /\ content_str' = r.value
                  /\ pc' = "scan"
                  /\ UNCHANGED status
  /\ UNCHANGED <<argv, fs, content, input_path, et_files, first_file,
                 node_names, unique_ops, op_counts, grouped>>

\* list.extend three times, lines 44-60
PooledTokens(text) ==
  findall(pattern1, text) \o findall(pattern2, text) \o findall(pattern3, text)

\* UniqueOps without set(): sorted(node_names).
UniqueOpsKeepDuplicates(names) == sorted(names)

\* sorted(set(node_names)), line 63
UniqueOps(names) == sorted(SetToSeq(Range(names)))

\* OpCounts that counts the unique operations: Counter(unique_ops).
OpCountsOfUnique(names) == Counter(sorted(SetToSeq(Range(names))))

\* Counter(node_names), line 64
OpCounts(names) == Counter(names)

\* extract_operations, lines 43-66
ScanPatterns ==
  /\ pc = "scan"
  /\ node_names' = PooledTokens(content_str)
  /\ unique_ops' = UniqueOps(node_names')
  /\ op_counts' = OpCounts(node_names')
  /\ pc' = "header"
  /\ UNCHANGED <<argv, fs, content, status, out, calls, input_path, et_files,
                 first_file, content_str, grouped>>

\* main, lines 107-110
PrintHeader ==
  /\ pc = "header"
  /\ out' = out \o << Line("rule", <<>>, 0),
                      Line("found_in", basename(first_file), 0),
                      Line("rule", <<>>, 0),
                      Line("total", <<>>, Len(unique_ops)) >>
  /\ pc' = "group"
  /\ UNCHANGED <<argv, fs, content, status, calls, input_path, et_files,
                 first_file, content_str, node_names, unique_ops, op_counts,
                 grouped>>

\* Prefix that joins two segments whatever their number.
PrefixTwoSegments(op) ==
  LET parts == split(op, Dot) IN
  IF Len(parts) >= 2 THEN join(Dot, Take(parts, 2)) ELSE op

\* The prefix of an operation, lines 116-120
Prefix(op) ==
  LET parts == split(op, Dot) IN
  IF Len(parts) >= 2
  THEN IF Len(parts) >= 3 THEN join(Dot, Take(parts, 3))
       ELSE join(Dot, Take(parts, 2))
  ELSE op

\* grouped after one pass of the loop body for op, lines 116-123
GroupInto(g, op) ==
  LET prefix == Prefix(op)
      g1 == IF prefix \notin DOMAIN g THEN g @@ (prefix :> <<>>) ELSE g
  IN [g1 EXCEPT ![prefix] = Append(@, op)]

\* grouped after the passes of the loop for ops[i], ops[i+1], ...
RECURSIVE GroupFrom(_, _, _)
GroupFrom(g, ops, i) ==
  IF i > Len(ops) THEN g ELSE GroupFrom(GroupInto(g, ops[i]), ops, i + 1)

\* The grouping loop, lines 113-123
GroupOperations ==
  /\ pc = "group"
  /\ grouped' = GroupFrom(<<>>, unique_ops, 1)
  /\ pc' = "print_groups"
  /\ UNCHANGED <<argv, fs, content, status, out, calls, input_path, et_files,
                 first_file, content_str, node_names, unique_ops, op_counts>>

\* list[::-1]
RECURSIVE Reverse(_)
Reverse(list) ==
  IF Len(list) = 0 THEN <<>> ELSE Append(Reverse(Tail(list)), Head(list))

\* GroupKeys in descending order: sorted(grouped.keys(), reverse=True).
GroupKeysDescending(g) == Reverse(sorted(SetToSeq(DOMAIN g)))

\* sorted(grouped.keys()), line 127
GroupKeys(g) == sorted(SetToSeq(DOMAIN g))

\* The lines of one group, lines 128-133
GroupLines(g, counts, prefix) ==
  LET ops == sorted(g[prefix]) IN
  <<Line("prefix", prefix, 0)>>
    \o [k \in 1..Len(ops) |-> Line("group_op", ops[k], CountOf(counts, ops[k]))]
    \o <<Line("blank", <<>>, 0)>>

\* The lines of the groups keys[i], keys[i+1], ...
RECURSIVE GroupsLinesFrom(_, _, _, _)
GroupsLinesFrom(g, counts, keys, i) ==
  IF i > Len(keys) THEN <<>>
  ELSE GroupLines(g, counts, keys[i]) \o GroupsLinesFrom(g, counts, keys, i + 1)

\* The grouped section, lines 126-133
PrintGroups ==
  /\ pc = "print_groups"
  /\ out' = out \o <<Line("grouped_title", <<>>, 0)>>
                \o GroupsLinesFrom(grouped, op_counts, GroupKeys(grouped), 1)
  /\ pc' = "print_all"
  /\ UNCHANGED <<argv, fs, content, status, calls, input_path, et_files,
                 first_file, content_str, node_names, unique_ops, op_counts,
                 grouped>>

\* The all-operations section, lines 136-141, and the return of main
PrintAll ==
  /\ pc = "print_all"
  /\ out' = out \o << Line("rule", <<>>, 0),
                      Line("all_title", <<>>, 0),
                      Line("rule", <<>>, 0) >>
                \o [k \in 1..Len(unique_ops) |->
                      Line("all_op", unique_ops[k], CountOf(op_counts, unique_ops[k]))]
  /\ Exit(0)
  /\ UNCHANGED <<argv, fs, content, calls, input_path, et_files, first_file,
                 content_str, node_names, unique_ops, op_counts, grouped>>

Next ==
  \/ CheckArgs
  \/ Resolve
  \/ TakeFirst
  \/ ReadFile
  \/ ScanPatterns
  \/ PrintHeader
  \/ GroupOperations
  \/ PrintGroups
  \/ PrintAll

Spec == Init /\ [][Next]_vars

(***************************************************************************)
(* Properties                                                              *)
(***************************************************************************)

\* extract_operations has just returned.
Extracted == pc = "header"

\* extract_operations has returned.
Scanned ==
  pc \in {"header", "group", "print_groups", "print_all"}
    \/ (pc = "exit" /\ status = 0)

\* The grouping loop has just ended.
Grouped == pc = "print_groups"

\* The grouping loop has ended.
GroupingDone ==
  pc \in {"print_groups", "print_all"} \/ (pc = "exit" /\ status = 0)

\* The report has been printed to its end.
Reported == pc = "exit" /\ status = 0

Occurrences(list, t) == Cardinality({k \in DOMAIN list : list[k] = t})

\* What the three scans of the decoded text produce, scan by scan.
Scans ==
  << findall(pattern1, content_str), findall(pattern2, content_str),
     findall(pattern3, content_str) >>

\* How often the scans produce t.
ScanCount(scans, t) ==
  Occurrences(scans[1], t) + Occurrences(scans[2], t) + Occurrences(scans[3], t)

ScanTokens(scans) == Range(scans[1]) \cup Range(scans[2]) \cup Range(scans[3])

GroupMembers == UNION {Range(grouped[p]) : p \in DOMAIN grouped}

\* Lexicographic order of strings, character by character.
RECURSIVE LexBefore(_, _)
LexBefore(a, b) ==
  IF Len(b) = 0 THEN FALSE
  ELSE IF Len(a) = 0 THEN TRUE
  ELSE IF a[1] # b[1] THEN a[1] < b[1]
  ELSE LexBefore(Tail(a), Tail(b))

StrictlyIncreasing(list) ==
  \A k \in 1..(Len(list) - 1) : LexBefore(list[k], list[k + 1])

\* C1: when extract_operations returns, the count of every token of the
\* unique operation set is at least 1 and is the number of times the three
\* scans together produce that string; a string no scan produces is in
\* neither the unique set nor the count table, nor, when the grouping loop
\* ends, in a prefix group.
C1_CountsAreScanOccurrences ==
  (Extracted \/ Grouped) =>
    \A scans \in {Scans} :
    /\ \A t \in Range(unique_ops) :
         /\ CountOf(op_counts, t) >= 1
         /\ CountOf(op_counts, t) = ScanCount(scans, t)
    /\ \A t \in Range(unique_ops) \cup DOMAIN op_counts \cup GroupMembers :
         ScanCount(scans, t) >= 1

\* A token two different scans produce (count 2 or more) beside a token
\* produced once, all of them grouped.
C1_Witness ==
  /\ Grouped
  /\ \E t \in Range(unique_ops) :
       /\ t \in Range(Scans[2])
       /\ t \in Range(Scans[3])
       /\ CountOf(op_counts, t) >= 2
       /\ t \in GroupMembers
  /\ \E t \in Range(unique_ops) : CountOf(op_counts, t) = 1

\* C2: the unique operation set extract_operations returns holds exactly
\* the distinct strings the scans produce, in strictly increasing
\* lexicographic order, so none twice.
C2_UniqueIsSortedDedup ==
  Extracted =>
    /\ Range(unique_ops) = ScanTokens(Scans)
    /\ StrictlyIncreasing(unique_ops)

\* The pooled list has a repeated token and is not in sorted order.
C2_Witness ==
  /\ Extracted
  /\ Len(unique_ops) >= 2
  /\ Len(node_names) > Len(unique_ops)
  /\ \E k \in 1..(Len(node_names) - 1) : LexBefore(node_names[k + 1], node_names[k])

DotPositions(t) == {k \in DOMAIN t : t[k] = Dot}

\* The key the rule gives: the token up to its third '.', the whole token
\* when it has fewer than three.
ExpectedKey(t) ==
  IF Cardinality(DotPositions(t)) <= 2 THEN t
  ELSE LET third == CHOOSE k \in DotPositions(t) :
                      Cardinality({j \in DotPositions(t) : j < k}) = 2
       IN SubSeq(t, 1, third - 1)

\* C3: after the grouping loop every token of the unique set is in exactly
\* one group, once, and that group's key is the token's first three segments
\* (the whole token when it has one, two or three segments); no group is
\* empty and none holds a token outside the unique set.
C3_GroupingTotalAndKeyed ==
  /\ Prefix(S(<<"a", ".", "b">>)) = S(<<"a", ".", "b">>)
  /\ Prefix(S(<<"a", ".", "b", ".", "c">>)) = S(<<"a", ".", "b", ".", "c">>)
  /\ Prefix(S(<<"a", ".", "b", ".", "c", ".", "d">>)) = S(<<"a", ".", "b", ".", "c">>)
  /\ Prefix(S(<<"a">>)) = S(<<"a">>)
  /\ GroupingDone =>
       /\ \A t \in Range(unique_ops) :
            /\ ExpectedKey(t) \in DOMAIN grouped
            /\ \A p \in DOMAIN grouped :
                 Occurrences(grouped[p], t) = (IF p = ExpectedKey(t) THEN 1 ELSE 0)
       /\ \A p \in DOMAIN grouped :
            /\ Len(grouped[p]) >= 1
            /\ Range(grouped[p]) \subseteq Range(unique_ops)

\* Grouped: a token without '.', a token of four segments or more, and a
\* group of two tokens.
C3_Witness ==
  /\ GroupingDone
  /\ \E t \in Range(unique_ops) : DotPositions(t) = {}
  /\ \E t \in Range(unique_ops) :
       Cardinality(DotPositions(t)) >= 3 /\ ExpectedKey(t) # t
  /\ \E p \in DOMAIN grouped : Len(grouped[p]) >= 2

Called(fn) == {k \in DOMAIN calls : calls[k].fn = fn}
Printed(kind) == {k \in DOMAIN out : out[k].kind = kind}

ReportKinds ==
  {"analyzing", "rule", "found_in", "total", "grouped_title", "prefix",
   "group_op", "blank", "all_title", "all_op"}

\* C4: when the resolver returns no file, main prints the error line that
\* names the searched path and exits with a non-zero status; nothing is
\* opened, nothing extracted and no line of the report printed.
C4_NoFilesIsFatal ==
  (Called("find_et_files") # {} /\ et_files = <<>> /\ pc # "check") =>
    /\ pc = "exit"
    /\ status \notin {0, -1}
    /\ out = <<Line("error_no_files", argv[1], 0)>>
    /\ Called("open") = {}
    /\ Called("extract_operations") = {}
    /\ node_names = <<>> /\ unique_ops = <<>>

\* The run on a directory that exists and holds no .et file has ended.
C4_Witness ==
  /\ pc = "exit"
  /\ Called("find_et_files") # {}
  /\ et_files = <<>>
  /\ fs[P_d] = "dir" /\ fs[P_dc] = "file"
  /\ argv = <<P_d>>

\* C5: without a path argument main prints the usage text and an error
\* line and exits with a non-zero status; the resolver is not called, no
\* file is opened and nothing is analysed or reported.
C5_NoArgumentIsFatal ==
  (argv = <<>> /\ pc # "start") =>
    /\ pc = "exit"
    /\ status \notin {0, -1}
    /\ Len(out) >= 2
    /\ out[1].kind = "usage" /\ out[2].kind = "error_no_path"
    /\ \A k \in DOMAIN out : out[k].kind \notin ReportKinds
    /\ calls = <<>>
    /\ node_names = <<>> /\ unique_ops = <<>>

\* The run without argument has ended, on a file system with .et files.
C5_Witness ==
  /\ argv = <<>>
  /\ pc = "exit"
  /\ fs[P_a] = "file" /\ fs[P_da] = "file"

ReadFailed == \E k \in Called("open") : ~calls[k].ok

\* C6: when the first resolved file cannot be read, the failure is printed
\* with its path, the run goes on with empty content, finds no operation
\* and no count, prints the whole report with a total of 0 and ends with
\* status 0.
C6_ReadFailureIsNotFatal ==
  (Len(et_files) >= 1 /\ ReadFailed) =>
    /\ Printed("error_reading") # {}
    /\ \A k \in Printed("error_reading") : out[k].text = et_files[1]
    /\ content_str = <<>>
    /\ pc \in {"scan", "header", "group", "print_groups", "print_all", "exit"}
    /\ pc # "exit" => ENABLED Next
    /\ Scanned => unique_ops = <<>> /\ DOMAIN op_counts = {}
    /\ pc = "exit" =>
         /\ status = 0
         /\ \E k \in Printed("total") : out[k].n = 0
         /\ Printed("found_in") # {}
         /\ Printed("grouped_title") # {}
         /\ Printed("all_title") # {}
         /\ Printed("prefix") \cup Printed("group_op") \cup Printed("all_op") = {}

\* The report is printed after the read of a regular file failed.
C6_Witness ==
  /\ Reported
  /\ ReadFailed
  /\ KindOf(fs, first_file) = "file"
  /\ Len(content[first_file]) > 0

\* The tokens the scans find in the decoded bytes of file p.
TokensOfFile(p) ==
  LET text == decode(content[p]) IN
  Range(findall(pattern1, text)) \cup Range(findall(pattern2, text))
    \cup Range(findall(pattern3, text))

\* C7: when the resolved list is not empty, one file is opened, the first
\* of the list, and only once; every token and count extract_operations
\* returns and every line of the finished report comes from that file.
C7_OnlyFirstFileAnalysed ==
  (Len(et_files) >= 1 /\ pc \notin {"start", "resolve", "check"}) =>
    /\ Cardinality(Called("open")) = (IF pc = "read" THEN 0 ELSE 1)
    /\ \A k \in Called("open") \cup Called("extract_operations") :
         calls[k].arg = et_files[1]
    /\ \A k \in Printed("analyzing") : out[k].text = et_files[1]
    /\ (Extracted \/ Reported) => \A tokens \in {TokensOfFile(et_files[1])} :
       /\ Range(node_names) \cup Range(unique_ops) \cup DOMAIN op_counts
            \subseteq tokens
       /\ \A k \in Printed("group_op") \cup Printed("all_op") :
            out[k].text \in tokens

\* A report on the first of several resolved files, whose tokens the
\* other files do not hold.
C7_Witness ==
  /\ Reported
  /\ Len(et_files) >= 3
  /\ unique_ops # <<>>
  /\ \A k \in 2..Len(et_files) :
       KindOf(fs, et_files[k]) = "file"
         /\ TokensOfFile(et_files[k]) \cap Range(unique_ops) = {}

EndsWithEt(p) ==
  /\ Len(p) >= 3
  /\ p[Len(p) - 2] = Ord["."] /\ p[Len(p) - 1] = Ord["e"] /\ p[Len(p)] = Ord["t"]

\* The path without the separators that end it.
Trimmed(p) ==
  LET last == CHOOSE n \in 0..Len(p) :
                /\ n = 0 \/ n = 1 \/ p[n] # Slash
                /\ \A k \in (n + 1)..Len(p) : k > 1 /\ p[k] = Slash
  IN SubSeq(p, 1, last)

NamesRegularFile(p) == Trimmed(p) \in Universe /\ fs[Trimmed(p)] = "file"
NamesDirectory(p)   == Trimmed(p) \in Universe /\ fs[Trimmed(p)] = "dir"

\* p is an entry directly inside directory dir.
DirectlyInside(p, dir) ==
  /\ Len(p) > Len(dir) + 1
  /\ SubSeq(p, 1, Len(dir) + 1) = dir \o <<Slash>>
  /\ \A k \in (Len(dir) + 2)..Len(p) : p[k] # Slash

NoDuplicates(list) ==
  \A j, k \in DOMAIN list : j # k => list[j] # list[k]

\* C8: the resolver's result is the input alone when the input names a
\* regular file and ends in '.et'; otherwise, when it names a directory,
\* the entries directly inside it that end in '.et', in lexicographic
\* order; otherwise the matches of the input as a glob that end in '.et'.
\* An input that names nothing and matches nothing gives the empty list
\* and the run ends with the resolution error.
C8_ResolverBranches ==
  Called("find_et_files") # {} =>
    /\ IF NamesRegularFile(input_path) /\ EndsWithEt(input_path)
       THEN et_files = <<input_path>>
       ELSE IF NamesDirectory(input_path)
       THEN /\ Range(et_files) =
                 {p \in Universe : /\ fs[p] # "none"
                                   /\ DirectlyInside(p, Trimmed(input_path))
                                   /\ EndsWithEt(p)}
            /\ StrictlyIncreasing(et_files)
       ELSE /\ Range(et_files) = {p \in GlobSet(fs, input_path) : EndsWithEt(p)}
            /\ NoDuplicates(et_files)
    /\ ( /\ ~NamesRegularFile(input_path)
         /\ ~NamesDirectory(input_path)
         /\ GlobSet(fs, input_path) = {} ) =>
           /\ et_files = <<>>
           /\ pc # "check" =>
                /\ pc = "exit" /\ status = 1
                /\ out = <<Line("error_no_files", input_path, 0)>>

\* The third branch: the input is neither a file nor a directory, its
\* glob matches a hidden .et file (left out by the glob), a directory named
\* a.et, b.et and c, and the result is b.et before a.et, c filtered out.
C8_Witness ==
  /\ Called("find_et_files") # {}
  /\ input_path = S(<<"d", "/", "*">>)
  /\ fs[P_dh] = "file" /\ fs[P_da] = "dir" /\ fs[P_db] = "file" /\ fs[P_dc] = "file"
  /\ et_files = <<P_db, P_da>>

\* C9: extract_strings_from_binary returns a string and never raises,
\* whether the read fails or the bytes are not valid UTF-8 or there are
\* none; what cannot be decoded is left out and no error is printed for it.
C9_ExtractorNeverRaises ==
  \A k \in Called("extract_strings_from_binary") :
    /\ calls[k].ok
    /\ pc # "exit" \/ status = 0
    /\ \A i \in DOMAIN content_str : content_str[i] \in 0..2047
    /\ DOMAIN content_str = 1..Len(content_str)
    /\ ~ReadFailed => Printed("error_reading") = {}
    /\ ~ReadFailed => Len(content_str) <= Len(content[calls[k].arg])

\* A file with a byte that is not valid UTF-8 was read and decoded to a
\* shorter text that is not empty.
C9_Witness ==
  /\ pc = "scan"
  /\ ~ReadFailed
  /\ \E i \in DOMAIN content[first_file] : content[first_file][i] = 195
  /\ Len(content_str) > 0
  /\ Len(content_str) + 1 < Len(content[first_file])

\* The rank of a line in the order of the report; 0 for a line that has
\* no fixed place (the rules between the sections).
Rank(kind) ==
  CASE kind = "found_in" -> 1
    [] kind = "total" -> 2
    [] kind = "grouped_title" -> 3
    [] kind \in {"prefix", "group_op", "blank"} -> 4
    [] kind = "all_title" -> 5
    [] kind = "all_op" -> 6
    [] OTHER -> 0

\* The text of the lines of one kind, in the order printed.
RECURSIVE TextsOf(_, _)
TextsOf(lines, kinds) ==
  IF Len(lines) = 0 THEN <<>>
  ELSE (IF Head(lines).kind \in kinds THEN <<Head(lines).text>> ELSE <<>>)
         \o TextsOf(Tail(lines), kinds)

\* The prefix line that line k of the grouped section stands under.
GroupLineOf(k) ==
  CHOOSE j \in Printed("prefix") :
    j < k /\ \A m \in Printed("prefix") : m < k => m <= j

\* C10: the report is printed in the order header (the file's base name),
\* total, grouped section, all-operations section; the groups come by
\* increasing key and their tokens by increasing order under their key, the
\* all-operations section follows the unique set, and every token of the
\* unique set is printed once in each section with its count of the table.
C10_ReportOrder ==
  /\ \A j, k \in DOMAIN out :
       (j < k /\ Rank(out[j].kind) > 0 /\ Rank(out[k].kind) > 0) =>
         Rank(out[j].kind) <= Rank(out[k].kind)
  /\ StrictlyIncreasing(TextsOf(out, {"prefix"}))
  /\ \A j, k \in Printed("group_op") :
       (j < k /\ GroupLineOf(j) = GroupLineOf(k)) => LexBefore(out[j].text, out[k].text)
  /\ \A k \in Printed("group_op") :
       out[GroupLineOf(k)].text = ExpectedKey(out[k].text)
  /\ \A k \in Printed("group_op") \cup Printed("all_op") :
       out[k].n = CountOf(op_counts, out[k].text)
  /\ \A k \in Printed("found_in") :
       /\ \A i \in DOMAIN out[k].text : out[k].text[i] # Slash
       /\ \/ first_file = out[k].text
          \/ /\ Len(first_file) > Len(out[k].text)
             /\ SubSeq(first_file, Len(first_file) - Len(out[k].text),
                       Len(first_file)) = <<Slash>> \o out[k].text
  /\ Reported =>
       /\ Cardinality(Printed("found_in")) = 1
       /\ Cardinality(Printed("total")) = 1
       /\ \A k \in Printed("total") : out[k].n = Cardinality(ScanTokens(Scans))
       /\ TextsOf(out, {"all_op"}) = unique_ops
       /\ \A t \in Range(unique_ops) :
            /\ Occurrences(TextsOf(out, {"group_op"}), t) = 1
            /\ Occurrences(TextsOf(out, {"all_op"}), t) = 1
       /\ Range(TextsOf(out, {"group_op"})) = Range(unique_ops)

\* A report with three groups, one of them of two tokens with different
\* counts, for a file inside a directory.
C10_Witness ==
  /\ Reported
  /\ Cardinality(Printed("prefix")) >= 2
  /\ \E p \in DOMAIN grouped : Len(grouped[p]) >= 2
  /\ \E j, k \in Printed("all_op") : out[j].n # out[k].n
  /\ first_file = P_da
====
